---- MODULE Spec2Model ----
(***************************************************************************)
(* Model of the storage benchmark harness: the benchmark runner            *)
(* (src/src/benchmark.py, benchmark_system), the result recorder           *)
(* (src/src/utils.py, save_results) and the storage adapters               *)
(* (src/src/systems/*.py).                                                  *)
(*                                                                         *)
(* The backends themselves are external services: in the runner every      *)
(* adapter call either raises or returns a value chosen by the backend.    *)
(***************************************************************************)
EXTENDS Integers, Sequences, FiniteSets, TLC

\* ---- bounds of the model ----
MaxWarmups == 1
MaxBatch == 2
MaxReads == 2
MaxBlob == 2
MaxLen == 2
MaxCalls == 2
MaxRows == 3
MaxWrites == 2
MaxTs == 2
MaxSizes == 2
MaxObserved == 1

VARIABLES
    pc,               \* position of benchmark_system
    warmups, batch_size, batch_reads, blob_size, verbose,   \* its arguments
    i,                \* index of the running for loop
    blob,             \* blob of the current iteration
    result,           \* what the last read_last (a blob) or read_batch (a count) returned
    now,              \* the clock: time.time_ns(), time.time()
    timestamp,        \* timestamp of the current iteration
    time_write,       \* time_write of the current iteration
    write_times, read_times, timestamps, batch_read_times,
    inflight,         \* exception raised inside the try block
    reported,         \* exception that leaves benchmark_system
    ops,              \* adapter operations issued so far, in order
    directory_exists, \* os.path.exists(directory)
    files,            \* result files: file name -> NoFile or sequence of lines
    files0,           \* the result files when the run started
    calls,            \* the save_results calls that were executed, in order
    kind,             \* the adapter class under test
    apc,              \* position of the adapter: its life cycle and the steps of cleanup()
    store,            \* the backend: container -> [exists, items]
    store0,           \* the backend as the adapter found it
    next_id,          \* the next blob_id GridFS hands out
    writes,           \* number of write_data calls made so far
    listing,          \* cleanup: the listed objects not yet iterated over
    todo,             \* cleanup: the containers still to drop
    attempted,        \* cleanup: the deletions attempted so far
    failed,           \* cleanup: the deletions that failed
    outcome,          \* cleanup: "none", "returned" or "raised"
    blob_sizes,       \* main: the blob sizes to benchmark, in order
    total_disk_space_available,   \* main: statvfs.f_frsize * statvfs.f_bavail
    size_index,       \* main: the number of blob sizes the for loop has taken
    systems,          \* main: the adapters created and not yet cleaned up
    pending,          \* the adapter operations issued and not yet completed
    awaited           \* the call the runner is suspended on: <<call>>, or <<>>

runnerVars == <<pc, warmups, batch_size, batch_reads, blob_size, verbose, i, blob,
                result, now, timestamp, time_write, write_times, read_times, timestamps,
                batch_read_times, inflight, reported, ops>>
fileVars == <<directory_exists, files, files0, calls>>
adapterVars == <<kind, apc, store, store0, next_id, writes, listing, todo, attempted, failed,
                 outcome>>
mainVars == <<blob_sizes, total_disk_space_available, size_index, systems>>
awaitVars == <<pending, awaited>>
vars == <<runnerVars, fileVars, adapterVars, mainVars, awaitVars>>

\* ---- values ----
None == -1
NoFile == <<"<no file>">>
Blobs == 1..MaxBlob
\* a measured duration: 0 when the clock did not advance during the call
Durations == {0, 1}
BlobSizes == {1024}
TimeSeqs == UNION {[1..n -> Durations] : n \in 0..MaxLen}
FileNames == {"read_write", "batch_read"}

\* one adapter call in the log: its name, the timestamp it was given (None when
\* it takes none) and whether it returned (TRUE) or raised (FALSE)
Op(name, ts, ok) == [op |-> name, ts |-> ts, ok |-> ok]

\* ---------------------------------------------------------------------
\* Result recorder (utils.py)
\* ---------------------------------------------------------------------
Digits == <<"0", "1", "2", "3", "4", "5", "6", "7", "8", "9">>

RECURSIVE Format(_)
\* f"{x}" of a non-negative number
Format(n) == IF n < 10 THEN Digits[n + 1]
             ELSE Format(n \div 10) \o Digits[(n % 10) + 1]

\* `x or 'N/A'`: None and a zero are both falsy
OrNA(x) == IF x = None \/ x = 0 THEN "N/A" ELSE Format(x)

Header == <<"write_time", "read_time", "blob_size", "batch_size">>

Max(a, b) == IF a >= b THEN a ELSE b

Min(a, b) == IF a <= b THEN a ELSE b

\* itertools.zip_longest(write_times, read_times): pairs by position, None fills
zip_shortest(wts, rts) ==
    [k \in 1..Min(Len(wts), Len(rts)) |-> <<wts[k], rts[k]>>]
zip_longest(wts, rts) ==
    [k \in 1..Max(Len(wts), Len(rts)) |->
        <<IF k <= Len(wts) THEN wts[k] ELSE None,
          IF k <= Len(rts) THEN rts[k] ELSE None>>]

\* one line of the file: its comma-separated fields
Row(pair, bsize, batch) == <<OrNA(pair[1]), OrNA(pair[2]), Format(bsize), Format(batch)>>

Rows(wts, rts, bsize, batch) ==
    [k \in 1..Len(zip_longest(wts, rts)) |-> Row(zip_longest(wts, rts)[k], bsize, batch)]

path_exists(fs, filename) == fs[filename] # NoFile

\* write_header = not os.path.exists(path)
write_header_always(fs, filename) == TRUE
write_header(fs, filename) == ~path_exists(fs, filename)

\* open(path, "a"): the content the writes are appended to
open_truncate(fs, filename) == <<>>
open_append(fs, filename) == IF path_exists(fs, filename) THEN fs[filename] ELSE <<>>

\* the content of the path after save_results(filename, ..., write_times, read_times)
save_results(fs, filename, bsize, batch, wts, rts) ==
    LET head == IF write_header(fs, filename) THEN <<Header>> ELSE <<>>
    IN  [fs EXCEPT ![filename] =
            open_append(fs, filename) \o head \o Rows(wts, rts, bsize, batch)]

\* a save_results call that was bound and executed: the directory is made, the
\* file appended to
Call(filename, bsize, batch, wts, rts) ==
    [filename |-> filename, blob_size |-> bsize, batch_size |-> batch,
     write_times |-> wts, read_times |-> rts]
RECURSIVE AfterCalls(_, _)
\* the files after the calls cs, made one after the other
AfterCalls(fs, cs) ==
    IF cs = <<>> THEN fs
    ELSE AfterCalls(save_results(fs, Head(cs).filename, Head(cs).blob_size,
                                 Head(cs).batch_size, Head(cs).write_times,
                                 Head(cs).read_times),
                    Tail(cs))
Recorded(cs) ==
    /\ directory_exists' = TRUE
    /\ files' = AfterCalls(files, cs)
    /\ calls' = calls \o cs

\* the parameters save_results declares and the keywords of the two calls
save_results_params ==
    {"filename", "directory", "blob_size", "batch_size", "write_times", "read_times", "quiet"}
ReadWriteKeywords ==
    {"filename", "directory", "blob_size", "batch_size", "write_times", "read_times", "verbose"}
BatchReadKeywords ==
    {"filename", "directory", "blob_size", "batch_size", "read_times", "verbose"}

\* a call binds when every keyword names a parameter, else it raises TypeError
Binds(keywords) == keywords \subseteq save_results_params

\* ---------------------------------------------------------------------
\* Storage adapters (systems/*.py) and the backends they talk to
\* ---------------------------------------------------------------------
Kinds == {"SystemOne", "SystemTwo", "InfluxDBMinioSystem", "TimescaleDBSystem",
          "SystemFour", "MongoDBSystem"}
\* object store plus index: MinIO and InfluxDB
TwoTier == {"SystemTwo", "InfluxDBMinioSystem"}
\* document database: a collection of records plus the blobs in GridFS
GridFSKinds == {"SystemFour", "MongoDBSystem"}

\* the containers of the backends: the ReductStore bucket; the MinIO bucket and the
\* InfluxDB bucket; the TimescaleDB database and its table `data`; the MongoDB
\* collection of records and the two collections of the GridFS bucket
Containers == {"reduct", "minio", "influx", "database", "table", "data", "files", "chunks"}

Absent == [exists |-> FALSE, items |-> {}]
Empty == [exists |-> TRUE, items |-> {}]
FreshStore == [c \in Containers |-> Absent]

\* the adapter variables of a run that uses no modelled adapter
NoAdapter ==
    /\ kind = "none"
    /\ apc = "idle"
    /\ store = FreshStore
    /\ store0 = store
    /\ next_id = 1
    /\ writes = 0
    /\ listing = <<>>
    /\ todo = <<>>
    /\ attempted = {}
    /\ failed = {}
    /\ outcome = "none"

\* the variables of main in a run that does not go through main
NoMain ==
    /\ blob_sizes = <<>>
    /\ total_disk_space_available = 0
    /\ size_index = 0
    /\ systems = <<>>

\* no adapter operation has been issued
NoAwait ==
    /\ pending = <<>>
    /\ awaited = <<>>

\* set a container's items, creating the container when it does not exist
Put(st, c, items) == [st EXCEPT ![c] = [exists |-> TRUE, items |-> items]]
\* the items of a container whose key (first component) is not k
Without(st, c, k) == {it \in st[c].items : it[1] # k}

\* the clock ticks of the model in one microsecond
TicksPerMicro == 3

\* datetime.fromtimestamp(ns / 1e9), datetime.utcfromtimestamp(ns / 1e9): the
\* microsecond nearest to the timestamp (halves go to the even one)
RoundMicro(ts) ==
    LET q == ts \div TicksPerMicro
        r == ts % TicksPerMicro
    IN  IF 2 * r < TicksPerMicro THEN q
        ELSE IF 2 * r > TicksPerMicro THEN q + 1
        ELSE IF q % 2 = 0 THEN q ELSE q + 1

\* to_rfc3339(ns_timestamp): the instant the string denotes, in ticks
to_rfc3339(ns_timestamp) == RoundMicro(ns_timestamp) * TicksPerMicro

\* the time a record is stored under: ReductStore and InfluxDB (WritePrecision.NS)
\* keep the timestamp, the databases get the datetime
StoredTime(k, ts) ==
    IF k \in {"TimescaleDBSystem", "MongoDBSystem", "SystemFour"} THEN RoundMicro(ts)
    ELSE ts

\* the lower bound read_batch(start) hands to the query, comparable to StoredTime
LowerBound(k, start) ==
    CASE k \in {"TimescaleDBSystem", "MongoDBSystem", "SystemFour"} -> RoundMicro(start)
      [] k \in {"SystemTwo", "InfluxDBMinioSystem"} -> to_rfc3339(start)
      [] OTHER -> start

\* the steps of create() / __init__ on the containers of the backend
Ensure(c) == [step |-> "ensure", on |-> c]
Make(c) == [step |-> "make", on |-> c]
DropIfExists(c) == [step |-> "drop", on |-> c]

\* create() / __init__ of each adapter (below it, with every container made
\* whether it exists or not)
CreateStepsStrict(k) ==
    CASE k = "SystemOne" -> <<Make("reduct")>>
      [] k \in TwoTier -> <<Make("minio"), Make("influx")>>
      [] k = "TimescaleDBSystem" -> <<Make("database"), Make("table")>>
      [] k \in GridFSKinds -> <<Make("data")>>
CreateSteps(k) ==
    CASE k = "SystemOne" ->
            \* create_bucket(REDUCTSTORE_BUCKET, exist_ok=True)
            <<Ensure("reduct")>>
      [] k \in TwoTier ->
            \* make_bucket unless bucket_exists; create_bucket unless found
            <<Ensure("minio"), Ensure("influx")>>
      [] k = "TimescaleDBSystem" ->
            \* DROP DATABASE IF EXISTS; CREATE DATABASE; CREATE TABLE IF NOT EXISTS data
            <<DropIfExists("database"), Make("database"), Ensure("table")>>
      [] k = "MongoDBSystem" ->
            \* create_collection("data") unless listed
            <<Ensure("data")>>
      [] k = "SystemFour" ->
            \* create_index on the collection
            <<Ensure("data")>>

\* the containers create() sets up
Needs(k) == {CreateSteps(k)[n].on : n \in 1..Len(CreateSteps(k))}

\* one step: making a container that exists raises, ensuring it keeps what it holds
StepRaises(st, s) == s.step = "make" /\ st[s.on].exists
AfterStep(st, s) ==
    IF s.step = "drop" THEN [st EXCEPT ![s.on] = Absent]
    ELSE Put(st, s.on, st[s.on].items)

RECURSIVE RunSteps(_, _)
\* the steps in order, up to the first one that raises
RunSteps(st, steps) ==
    IF steps = <<>> THEN [ok |-> TRUE, store |-> st]
    ELSE IF StepRaises(st, Head(steps)) THEN [ok |-> FALSE, store |-> st]
    ELSE RunSteps(AfterStep(st, Head(steps)), Tail(steps))

\* the backend after create()
Created(k, st) == RunSteps(st, CreateSteps(k)).store

\* the first store operation of write_data(data, timestamp)
FirstWrite(k, st, b, ts, id) ==
    CASE k = "SystemOne" -> Put(st, "reduct", st["reduct"].items \cup {<<ts, b>>})
      [] k \in TwoTier -> Put(st, "minio", Without(st, "minio", ts) \cup {<<ts, b>>})
      [] k = "TimescaleDBSystem" ->
            \* INSERT INTO data (time, data): one more row, id tells equal rows apart
            Put(st, "table", st["table"].items \cup {<<StoredTime(k, ts), b, id>>})
      [] k \in GridFSKinds ->
            Put(Put(st, "files", st["files"].items \cup {<<id, b>>}),
                "chunks", st["chunks"].items \cup {<<id, b>>})

\* the second store operation of write_data, for the adapters that have one: the
\* index entry that points to the object or blob
SecondWrite(k, st, b, ts, id) ==
    CASE k \in TwoTier -> Put(st, "influx", Without(st, "influx", ts) \cup {<<ts, ts>>})
      [] k \in GridFSKinds ->
            Put(st, "data", st["data"].items \cup {<<StoredTime(k, ts), id>>})
      [] OTHER -> st

\* what create() can find when containers of the adapter are left from an
\* earlier run
FoundUsed(k) == {[c \in Containers |-> IF c \in S THEN Empty ELSE Absent] :
                    S \in SUBSET Needs(k)}

\* the runner and the result files of a run that drives an adapter directly
NoRunner ==
    /\ pc = "idle"
    /\ warmups = 0 /\ batch_size = 0 /\ batch_reads = 0
    /\ blob_size = 0
    /\ verbose = FALSE
    /\ i = 0 /\ blob = None /\ result = None /\ now = 1
    /\ timestamp = None /\ time_write = None
    /\ write_times = <<>> /\ read_times = <<>> /\ timestamps = <<>>
    /\ batch_read_times = <<>>
    /\ inflight = "none" /\ reported = "none"
    /\ ops = <<>>
    /\ directory_exists = FALSE
    /\ files = [f \in FileNames |-> NoFile]
    /\ files0 = files
    /\ calls = <<>>

\* an adapter about to be created on the backend it finds
NewAdapter ==
    /\ kind \in Kinds
    /\ apc = "new"
    /\ store0 = store
    /\ next_id = 1
    /\ writes = 0
    /\ listing = <<>>
    /\ todo = <<>>
    /\ attempted = {}
    /\ failed = {}
    /\ outcome = "none"

\* on a backend never used
InitAdapters ==
    /\ NoRunner
    /\ store = FreshStore
    /\ NewAdapter
    /\ NoMain
    /\ NoAwait

\* on a backend that may hold containers of an earlier run
InitReads ==
    /\ NoRunner
    /\ kind \in Kinds
    /\ store \in FoundUsed(kind)
    /\ NewAdapter
    /\ NoMain
    /\ NoAwait

\* await <System>.create(): the adapter is ready, or create() raised
Create ==
    /\ apc = "new"
    /\ store' = Created(kind, store)
    /\ apc' = IF RunSteps(store, CreateSteps(kind)).ok THEN "ready" ELSE "failed"
    /\ UNCHANGED <<kind, store0, next_id, writes, listing, todo, attempted, failed, outcome>>
    /\ UNCHANGED <<runnerVars, fileVars, mainVars, awaitVars>>

\* bucket.write on a timestamp the entry already holds is refused by ReductStore
Conflict(k, st, ts) == k = "SystemOne" /\ \E it \in st["reduct"].items : it[1] = ts

\* the adapters whose write makes the backend hand out an identity: the blob_id
\* of GridFS, the row of the table
HandsOutId(k) == k \in GridFSKinds \cup {"TimescaleDBSystem"}

\* the number of calls of the given names issued so far
Issued(names) == Cardinality({n \in 1..Len(ops) : ops[n].op \in names})

\* await system.write_data(blob, timestamp), with a blob not written before
\* (generate_blob draws it at random): the first store operation raises, or the
\* second one does after the first was done, or both are done
WriteData ==
    /\ apc = "ready"
    /\ writes < MaxWrites
    /\ writes' = writes + 1
    /\ \E ts \in 1..MaxTs :
         LET b == writes + 1
             first == FirstWrite(kind, store, b, ts, next_id)
         IN  /\ blob' = b
             /\ timestamp' = ts
             /\ \/ /\ UNCHANGED <<store, next_id>>
                   /\ ops' = Append(ops, Op("write_data", ts, FALSE))
                \/ /\ kind \in TwoTier \cup GridFSKinds
                   /\ store' = first
                   /\ next_id' = IF HandsOutId(kind) THEN next_id + 1 ELSE next_id
                   /\ ops' = Append(ops, Op("write_data", ts, FALSE))
                \/ /\ ~Conflict(kind, store, ts)
                   /\ store' = SecondWrite(kind, first, b, ts, next_id)
                   /\ next_id' = IF HandsOutId(kind) THEN next_id + 1 ELSE next_id
                   /\ ops' = Append(ops, Op("write_data", ts, TRUE))
    /\ UNCHANGED <<kind, store0, apc, listing, todo, attempted, failed, outcome>>
    /\ UNCHANGED <<pc, warmups, batch_size, batch_reads, blob_size, verbose, i, result,
                   now, time_write, write_times, read_times, timestamps,
                   batch_read_times, inflight, reported>>
    /\ UNCHANGED <<fileVars, mainVars, awaitVars>>

\* what a read hands back: the value it returned, or an exception
Returned(v) == [ok |-> TRUE, value |-> v]
Raises == [ok |-> FALSE, value |-> None]

\* b"", what the document adapters return when the collection holds no record
EmptyBytes == 0

\* the records of the greatest time: sorted by time descending, the first one;
\* which one of several records of the same time comes first is up to the backend
Latest(items) == {it \in items : \A o \in items : o[1] <= it[1]}

\* await self.minio_client.get_object(MINIO_BUCKET, object_name); response.read()
get_object(st, name) ==
    LET found == {o \in st["minio"].items : o[1] = name}
    IN  IF found = {} THEN {Raises} ELSE {Returned(o[2]) : o \in found}

\* self.fs.get(blob_id).read()
fs_get(st, id) ==
    LET found == {f \in st["files"].items : f[1] = id}
    IN  IF found = {} THEN {Raises} ELSE {Returned(f[2]) : f \in found}

\* read_last() of each adapter: the outcomes the backend can produce.  The
\* InfluxDB query of the two-tier adapters covers range(start: -10s); the
\* timestamps of the model are taken to lie within it.
read_last(k, st) ==
    CASE k = "SystemOne" ->
            \* bucket.read(REDUCTSTORE_ENTRY): the latest record of the entry
            IF ~st["reduct"].exists \/ st["reduct"].items = {} THEN {Raises}
            ELSE {Returned(it[2]) : it \in Latest(st["reduct"].items)}
      [] k \in TwoTier ->
            \* |> last(); raise ValueError when no record; get_object of its _value
            IF ~st["influx"].exists \/ st["influx"].items = {} THEN {Raises}
            ELSE UNION {get_object(st, it[2]) : it \in Latest(st["influx"].items)}
      [] k = "TimescaleDBSystem" ->
            \* SELECT data FROM data ORDER BY time DESC LIMIT 1; fetchone()[0]
            IF ~st["table"].exists \/ st["table"].items = {} THEN {Raises}
            ELSE {Returned(it[2]) : it \in Latest(st["table"].items)}
      [] k \in GridFSKinds ->
            \* find().sort(time, -1).limit(1); fs.get(blob_id) when the count is > 0
            IF st["data"].items = {} THEN {Returned(EmptyBytes)}
            ELSE UNION {fs_get(st, it[2]) : it \in Latest(st["data"].items)}

\* the records read_batch(start) selects: those stored at or after the lower bound
Selected(k, items, start) == {it \in items : it[1] >= LowerBound(k, start)}

\* read_batch(start) of each adapter: the number of blobs in the list returned
read_batch(k, st, start) ==
    CASE k = "SystemOne" ->
            \* async for record in bucket.query(REDUCTSTORE_ENTRY, start=start)
            IF ~st["reduct"].exists \/ st["reduct"].items = {} THEN {Raises}
            ELSE {Returned(Cardinality(Selected(k, st["reduct"].items, start)))}
      [] k \in TwoTier ->
            \* result[0].records of the query, then get_object of every _value
            LET records == Selected(k, st["influx"].items, start)
            IN  IF ~st["influx"].exists \/ records = {} THEN {Raises}
                ELSE IF \E it \in records : Raises \in get_object(st, it[2]) THEN {Raises}
                ELSE {Returned(Cardinality(records))}
      [] k = "TimescaleDBSystem" ->
            \* SELECT data FROM data WHERE time >= %s
            IF ~st["table"].exists THEN {Raises}
            ELSE {Returned(Cardinality(Selected(k, st["table"].items, start)))}
      [] k \in GridFSKinds ->
            \* find({time: {$gte: start_time}}); fs.get(blob_id) of every record
            LET records == Selected(k, st["data"].items, start)
            IN  IF \E it \in records : Raises \in fs_get(st, it[2]) THEN {Raises}
                ELSE {Returned(Cardinality(records))}

\* await system.read_last()
ReadLast ==
    /\ apc = "ready"
    /\ Issued({"read_last", "read_batch"}) < MaxObserved
    /\ \E out \in read_last(kind, store) :
         /\ result' = out.value
         /\ ops' = Append(ops, Op("read_last", None, out.ok))
    /\ UNCHANGED adapterVars
    /\ UNCHANGED <<pc, warmups, batch_size, batch_reads, blob_size, verbose, i, blob,
                   now, timestamp, time_write, write_times, read_times, timestamps,
                   batch_read_times, inflight, reported>>
    /\ UNCHANGED <<fileVars, mainVars, awaitVars>>

\* await system.read_batch(start)
ReadBatch ==
    /\ apc = "ready"
    /\ Issued({"read_last", "read_batch"}) < MaxObserved
    /\ \E start \in 1..MaxTs : \E out \in read_batch(kind, store, start) :
         /\ result' = out.value
         /\ ops' = Append(ops, Op("read_batch", start, out.ok))
    /\ UNCHANGED adapterVars
    /\ UNCHANGED <<pc, warmups, batch_size, batch_reads, blob_size, verbose, i, blob,
                   now, timestamp, time_write, write_times, read_times, timestamps,
                   batch_read_times, inflight, reported>>
    /\ UNCHANGED <<fileVars, mainVars, awaitVars>>

\* the containers cleanup() of a single-store adapter drops, in order
Plan(k) ==
    CASE k = "SystemOne" -> <<"reduct">>
      [] k = "TimescaleDBSystem" -> <<"table", "database">>
      [] k = "MongoDBSystem" -> <<"data">>
      [] k = "SystemFour" -> <<"data", "chunks", "files">>
      [] OTHER -> <<>>

\* try/except around each deletion of cleanup(): only InfluxDBMinioSystem has it
CatchesDeletionErrors(k) == k = "InfluxDBMinioSystem"

\* await system.cleanup() is entered
CleanupCall ==
    /\ apc = "ready"
    /\ apc' = IF kind \in TwoTier THEN "list" ELSE "drop"
    /\ todo' = Plan(kind)
    /\ UNCHANGED <<kind, store0, store, next_id, writes, listing, attempted, failed, outcome>>
    /\ UNCHANGED <<runnerVars, fileVars, mainVars, awaitVars>>

\* cleanup() leaves with an exception
CleanupRaises ==
    /\ apc' = "closed"
    /\ outcome' = "raised"

\* single-store adapters: drop the next container; a failing drop raises
DropContainer ==
    /\ apc = "drop"
    /\ LET c == Head(todo)
       IN  /\ attempted' = attempted \cup {<<c, 0>>}
           /\ \/ /\ c = "reduct" => store[c].exists
                 /\ store' = [store EXCEPT ![c] = Absent]
                 /\ todo' = Tail(todo)
                 /\ IF Tail(todo) = <<>>
                    THEN apc' = "closed" /\ outcome' = "returned"
                    ELSE UNCHANGED <<apc, outcome>>
                 /\ UNCHANGED failed
              \/ /\ failed' = failed \cup {<<c, 0>>}
                 /\ CleanupRaises
                 /\ UNCHANGED <<store, todo>>
    /\ UNCHANGED <<kind, store0, next_id, writes, listing>>
    /\ UNCHANGED <<runnerVars, fileVars, mainVars, awaitVars>>

RECURSIVE Sorted(_)
\* the elements of a set of numbers, in increasing order
Sorted(S) == IF S = {} THEN <<>>
             ELSE LET m == CHOOSE x \in S : \A y \in S : x <= y
                  IN  <<m>> \o Sorted(S \ {m})

\* self.minio_client.list_objects(MINIO_BUCKET): the names of the objects the
\* bucket holds (below it, the names the index holds)
list_indexed(st) == {it[2] : it \in st["influx"].items}
list_objects(st) == {it[1] : it \in st["minio"].items}

\* objects = await self.minio_client.list_objects(MINIO_BUCKET)
ListObjects ==
    /\ apc = "list"
    /\ listing' = Sorted(list_objects(store))
    /\ apc' = IF listing' = <<>> THEN "remove_bucket" ELSE "remove_objects"
    /\ UNCHANGED <<kind, store0, store, next_id, writes, todo, attempted, failed, outcome>>
    /\ UNCHANGED <<runnerVars, fileVars, mainVars, awaitVars>>

\* where cleanup goes when the for loop over the listed objects is exhausted:
\* InfluxDBMinioSystem lists again, SystemTwo goes on to the bucket
AfterObjects(k) == IF k = "InfluxDBMinioSystem" THEN "list" ELSE "remove_bucket"

\* for obj in objects: await self.minio_client.remove_object(MINIO_BUCKET, obj.object_name)
RemoveObject ==
    /\ apc = "remove_objects"
    /\ LET name == Head(listing)
       IN  /\ attempted' = attempted \cup {<<"remove_object", name>>}
           /\ \/ /\ store' = [store EXCEPT !["minio"].items = Without(store, "minio", name)]
                 /\ listing' = Tail(listing)
                 /\ apc' = IF Tail(listing) = <<>> THEN AfterObjects(kind) ELSE apc
                 /\ UNCHANGED <<failed, outcome>>
              \/ /\ failed' = failed \cup {<<"remove_object", name>>}
                 /\ IF CatchesDeletionErrors(kind)
                    THEN /\ listing' = Tail(listing)
                         /\ apc' = IF Tail(listing) = <<>> THEN AfterObjects(kind) ELSE apc
                         /\ UNCHANGED outcome
                    ELSE /\ CleanupRaises
                         /\ UNCHANGED listing
                 /\ UNCHANGED store
    /\ UNCHANGED <<kind, store0, next_id, writes, todo>>
    /\ UNCHANGED <<runnerVars, fileVars, mainVars, awaitVars>>

\* await self.minio_client.remove_bucket(MINIO_BUCKET): refused while objects remain
RemoveBucket ==
    /\ apc = "remove_bucket"
    /\ attempted' = attempted \cup {<<"remove_bucket", 0>>}
    /\ \/ /\ store["minio"].exists /\ store["minio"].items = {}
          /\ store' = [store EXCEPT !["minio"] = Absent]
          /\ apc' = "delete_bucket"
          /\ UNCHANGED <<failed, outcome>>
       \/ /\ failed' = failed \cup {<<"remove_bucket", 0>>}
          /\ IF CatchesDeletionErrors(kind)
             THEN apc' = "delete_bucket" /\ UNCHANGED outcome
             ELSE CleanupRaises
          /\ UNCHANGED store
    /\ UNCHANGED <<kind, store0, next_id, writes, listing, todo>>
    /\ UNCHANGED <<runnerVars, fileVars, mainVars, awaitVars>>

\* bucket = find_bucket_by_name(INFLUXDB_BUCKET); delete_bucket(bucket=bucket)
DeleteBucket ==
    /\ apc = "delete_bucket"
    /\ attempted' = attempted \cup {<<"delete_bucket", 0>>}
    /\ apc' = "closed"
    /\ \/ /\ store["influx"].exists
          /\ store' = [store EXCEPT !["influx"] = Absent]
          /\ outcome' = "returned"
          /\ UNCHANGED failed
       \/ /\ failed' = failed \cup {<<"delete_bucket", 0>>}
          /\ outcome' = IF CatchesDeletionErrors(kind) THEN "returned" ELSE "raised"
          /\ UNCHANGED store
    /\ UNCHANGED <<kind, store0, next_id, writes, listing, todo>>
    /\ UNCHANGED <<runnerVars, fileVars, mainVars, awaitVars>>

NextAdapters ==
    \/ Create
    \/ WriteData
    \/ CleanupCall
    \/ DropContainer
    \/ ListObjects
    \/ RemoveObject
    \/ RemoveBucket
    \/ DeleteBucket

SpecAdapters == InitAdapters /\ [][NextAdapters]_vars

\* the same, with every call the adapter awaits completing: cleanup() never
\* stops in the middle while it has a next statement to run
SpecAdaptersLive == InitAdapters /\ [][NextAdapters]_vars /\ WF_vars(NextAdapters)

\* the adapter created, written to and read from
NextReads ==
    \/ Create
    \/ WriteData
    \/ ReadLast
    \/ ReadBatch

SpecReads == InitReads /\ [][NextReads]_vars

\* ---------------------------------------------------------------------
\* Benchmark runner (benchmark.py, benchmark_system)
\* ---------------------------------------------------------------------
\* `assert result == blob`
BlobMatchesUnchecked(res, b) == TRUE
BlobMatches(res, b) == res = b

\* `assert len(result) == batch_size`
CountValidAtMost(count, batch) == count <= batch
CountValid(count, batch) == count = batch

\* an exception inside the try block: control goes to the finally clause (not on
\* to the saving of the results, not out of the function)
RaiseThenSave(e) == /\ inflight' = e
                    /\ pc' = "save"
RaiseWithoutFinally(e) == /\ inflight' = e
                          /\ pc' = "done"
Raise(e) == /\ inflight' = e
            /\ pc' = "cleanup"

\* for _ in range(n): the loop is over after n iterations (one too early: after
\* n - 1)
range_done_early(k, n) == k >= n - 1
range_done(k, n) == k >= n

\* start_time = time.time(); await ...; end_time = time.time(): the call took d
Elapsed(d) == now' = now + d

InitFiles ==
    /\ files0 \in {[f \in FileNames |-> NoFile],
                   [f \in FileNames |-> <<Header, Row(<<1, 1>>, 1024, 1)>>]}
    /\ files = files0
    /\ calls = <<>>
    /\ directory_exists = path_exists(files0, "read_write")

Init ==
    /\ warmups \in 0..MaxWarmups
    /\ batch_size \in 0..MaxBatch
    /\ batch_reads \in 0..MaxReads
    /\ blob_size \in BlobSizes
    /\ verbose \in BOOLEAN
    /\ pc = "warmup"
    /\ i = 0
    /\ blob = None
    /\ result = None
    /\ now = 1
    /\ timestamp = None
    /\ time_write = None
    /\ write_times = <<>>
    /\ read_times = <<>>
    /\ timestamps = <<>>
    /\ batch_read_times = <<>>
    /\ inflight = "none"
    /\ reported = "none"
    /\ ops = <<>>
    /\ InitFiles
    /\ NoAdapter
    /\ NoMain
    /\ NoAwait

\* warmup: timestamp, blob, write_data
WarmupWrite ==
    /\ pc = "warmup" /\ ~range_done(i, warmups)
    /\ timestamp' = now
    /\ \E b \in Blobs : blob' = b
    /\ \/ /\ ops' = Append(ops, Op("write_data", now, TRUE))
          /\ \E d \in Durations : Elapsed(d)
          /\ pc' = "warmup_read"
          /\ UNCHANGED inflight
       \/ /\ ops' = Append(ops, Op("write_data", now, FALSE))
          /\ Raise("WriteError")
          /\ UNCHANGED now
    /\ UNCHANGED <<warmups, batch_size, batch_reads, blob_size, verbose, i, result,
                   time_write, write_times, read_times, timestamps, batch_read_times,
                   reported>>
    /\ UNCHANGED <<fileVars, adapterVars, mainVars, awaitVars>>

\* warmup: read_last, assert result == blob
WarmupRead ==
    /\ pc = "warmup_read"
    /\ \/ \E res \in 0..MaxBlob, d \in Durations :
            /\ ops' = Append(ops, Op("read_last", None, TRUE))
            /\ result' = res
            /\ Elapsed(d)
            /\ IF BlobMatches(res, blob)
               THEN pc' = "warmup" /\ i' = i + 1 /\ UNCHANGED inflight
               ELSE Raise("AssertionError") /\ UNCHANGED i
       \/ /\ ops' = Append(ops, Op("read_last", None, FALSE))
          /\ Raise("ReadError")
          /\ UNCHANGED <<i, result, now>>
    /\ UNCHANGED <<warmups, batch_size, batch_reads, blob_size, verbose, blob, timestamp,
                   time_write, write_times, read_times, timestamps, batch_read_times,
                   reported>>
    /\ UNCHANGED <<fileVars, adapterVars, mainVars, awaitVars>>

WarmupDone ==
    /\ pc = "warmup" /\ range_done(i, warmups)
    /\ pc' = "loop"
    /\ i' = 0
    /\ UNCHANGED <<warmups, batch_size, batch_reads, blob_size, verbose, blob, result, now,
                   timestamp, time_write, write_times, read_times, timestamps,
                   batch_read_times, inflight, reported, ops>>
    /\ UNCHANGED <<fileVars, adapterVars, mainVars, awaitVars>>

\* single-item loop: blob, timestamp, timed write_data
LoopWrite ==
    /\ pc = "loop" /\ ~range_done(i, batch_size)
    /\ \E b \in Blobs : blob' = b
    /\ timestamp' = now
    /\ \/ /\ ops' = Append(ops, Op("write_data", now, TRUE))
          /\ \E d \in Durations : time_write' = d /\ Elapsed(d)
          /\ pc' = "loop_read"
          /\ UNCHANGED inflight
       \/ /\ ops' = Append(ops, Op("write_data", now, FALSE))
          /\ Raise("WriteError")
          /\ UNCHANGED <<time_write, now>>
    /\ UNCHANGED <<warmups, batch_size, batch_reads, blob_size, verbose, i, result,
                   write_times, read_times, timestamps, batch_read_times, reported>>
    /\ UNCHANGED <<fileVars, adapterVars, mainVars, awaitVars>>

\* single-item loop: timed read_last, assert blob == result, record the samples
LoopRead ==
    /\ pc = "loop_read"
    /\ \/ \E res \in 0..MaxBlob, time_read \in Durations :
            /\ ops' = Append(ops, Op("read_last", None, TRUE))
            /\ result' = res
            /\ Elapsed(time_read)
            /\ IF BlobMatches(res, blob)
               THEN /\ write_times' = Append(write_times, time_write)
                    /\ read_times' = Append(read_times, time_read)
                    /\ timestamps' = Append(timestamps, timestamp)
                    /\ i' = i + 1
                    /\ pc' = "loop"
                    /\ UNCHANGED inflight
               ELSE /\ Raise("AssertionError")
                    /\ UNCHANGED <<write_times, read_times, timestamps, i>>
       \/ /\ ops' = Append(ops, Op("read_last", None, FALSE))
          /\ Raise("ReadError")
          /\ UNCHANGED <<write_times, read_times, timestamps, i, result, now>>
    /\ UNCHANGED <<warmups, batch_size, batch_reads, blob_size, verbose, blob, timestamp,
                   time_write, batch_read_times, reported>>
    /\ UNCHANGED <<fileVars, adapterVars, mainVars, awaitVars>>

LoopDone ==
    /\ pc = "loop" /\ range_done(i, batch_size)
    /\ pc' = "batch"
    /\ i' = 0
    /\ UNCHANGED <<warmups, batch_size, batch_reads, blob_size, verbose, blob, result, now,
                   timestamp, time_write, write_times, read_times, timestamps,
                   batch_read_times, inflight, reported, ops>>
    /\ UNCHANGED <<fileVars, adapterVars, mainVars, awaitVars>>

\* batch-read loop: timed read_batch(timestamps[0]), assert len(result) == batch_size
BatchRead ==
    /\ pc = "batch" /\ ~range_done(i, batch_reads)
    /\ IF timestamps = <<>>
       THEN /\ Raise("IndexError")
            /\ UNCHANGED <<ops, batch_read_times, i, result, now>>
       ELSE \/ \E count \in 0..(MaxBatch + 1), time_read \in Durations :
                 /\ ops' = Append(ops, Op("read_batch", timestamps[1], TRUE))
                 /\ result' = count
                 /\ Elapsed(time_read)
                 /\ IF CountValid(count, batch_size)
                    THEN /\ batch_read_times' = Append(batch_read_times, time_read)
                         /\ i' = i + 1
                         /\ UNCHANGED <<pc, inflight>>
                    ELSE /\ Raise("AssertionError")
                         /\ UNCHANGED <<batch_read_times, i>>
            \/ /\ ops' = Append(ops, Op("read_batch", timestamps[1], FALSE))
               /\ Raise("ReadError")
               /\ UNCHANGED <<batch_read_times, i, result, now>>
    /\ UNCHANGED <<warmups, batch_size, batch_reads, blob_size, verbose, blob,
                   timestamp, time_write, write_times, read_times, timestamps, reported>>
    /\ UNCHANGED <<fileVars, adapterVars, mainVars, awaitVars>>

BatchDone ==
    /\ pc = "batch" /\ range_done(i, batch_reads)
    /\ pc' = "aggregate"
    /\ i' = 0
    /\ UNCHANGED <<warmups, batch_size, batch_reads, blob_size, verbose, blob, result, now,
                   timestamp, time_write, write_times, read_times, timestamps,
                   batch_read_times, inflight, reported, ops>>
    /\ UNCHANGED <<fileVars, adapterVars, mainVars, awaitVars>>

\* the averages, computed only when verbose: sum(...) / batch_size, / batch_reads
Aggregate ==
    /\ pc = "aggregate"
    /\ IF verbose /\ (batch_size = 0 \/ batch_reads = 0)
       THEN Raise("ZeroDivisionError")
       ELSE pc' = "save" /\ UNCHANGED inflight
    /\ UNCHANGED <<warmups, batch_size, batch_reads, blob_size, verbose, i, blob, result,
                   now, timestamp, time_write, write_times, read_times, timestamps,
                   batch_read_times, reported, ops>>
    /\ UNCHANGED <<fileVars, adapterVars, mainVars, awaitVars>>

\* save_results(filename="<System>_read_write.csv", ..., batch_size=1, ..., verbose=verbose)
\* save_results(filename="<System>_batch_read.csv", ..., read_times=batch_read_times,
\*              verbose=verbose)
SaveResults ==
    /\ pc = "save"
    /\ LET read_write == Call("read_write", blob_size, 1, write_times, read_times)
           batch_read == Call("batch_read", blob_size, batch_size, <<>>, batch_read_times)
       IN  IF ~Binds(ReadWriteKeywords)
           THEN /\ Raise("TypeError")
                /\ UNCHANGED <<files, directory_exists, calls>>
           ELSE IF ~Binds(BatchReadKeywords)
           THEN /\ Recorded(<<read_write>>)
                /\ Raise("TypeError")
           ELSE /\ Recorded(<<read_write, batch_read>>)
                /\ pc' = "cleanup"
                /\ UNCHANGED inflight
    /\ UNCHANGED <<warmups, batch_size, batch_reads, blob_size, verbose, i, blob, result,
                   now, timestamp, time_write, write_times, read_times, timestamps,
                   batch_read_times, reported, ops, files0>>
    /\ UNCHANGED <<adapterVars, mainVars, awaitVars>>

\* finally: await system.cleanup(); an exception raised here replaces the one in flight
Cleanup ==
    /\ pc = "cleanup"
    /\ pc' = "done"
    /\ \/ /\ ops' = Append(ops, Op("cleanup", None, TRUE))
          /\ reported' = inflight
       \/ /\ ops' = Append(ops, Op("cleanup", None, FALSE))
          /\ reported' = "CleanupError"
    /\ UNCHANGED <<warmups, batch_size, batch_reads, blob_size, verbose, i, blob, result,
                   now, timestamp, time_write, write_times, read_times, timestamps,
                   batch_read_times, inflight>>
    /\ UNCHANGED <<fileVars, adapterVars, mainVars, awaitVars>>

Next ==
    \/ WarmupWrite
    \/ WarmupRead
    \/ WarmupDone
    \/ LoopWrite
    \/ LoopRead
    \/ LoopDone
    \/ BatchRead
    \/ BatchDone
    \/ Aggregate
    \/ SaveResults
    \/ Cleanup

Spec == Init /\ [][Next]_vars

\* ---------------------------------------------------------------------
\* The runner's adapter calls, from the moment a call is issued to the moment
\* it returns or raises (benchmark.py, benchmark_system and its timed wrappers)
\* ---------------------------------------------------------------------
\* the adapter operation benchmark_system calls at a position
OpAt(p) == CASE p \in {"warmup", "loop"} -> "write_data"
             [] p \in {"warmup_read", "loop_read"} -> "read_last"
             [] p = "batch" -> "read_batch"
             [] OTHER -> "cleanup"

\* the position after the call made at a position has returned
AfterReturn(p) == CASE p = "warmup" -> "warmup_read"
                    [] p = "warmup_read" -> "warmup"
                    [] p = "loop" -> "loop_read"
                    [] p = "loop_read" -> "loop"
                    [] p = "batch" -> "batch"
                    [] OTHER -> "done"

\* every adapter call is awaited: `await system.write_data(...)` and so on (a
\* write that is not awaited would be left running as a task)
awaits_reads_only(name) == name # "write_data"
awaits(name) == TRUE

\* the pending calls without the n-th
Dropped(calls_pending, n) ==
    SubSeq(calls_pending, 1, n - 1) \o SubSeq(calls_pending, n + 1, Len(calls_pending))

\* the runner is at a call it has not issued yet
AtCall ==
    \/ pc = "warmup" /\ ~range_done(i, warmups)
    \/ pc \in {"warmup_read", "loop_read", "cleanup"}
    \/ pc = "loop" /\ ~range_done(i, batch_size)
    \/ pc = "batch" /\ ~range_done(i, batch_reads) /\ timestamps # <<>>

\* the call is issued: the adapter coroutine starts, the runner is suspended on it
Issue ==
    /\ awaited = <<>>
    /\ AtCall
    /\ LET name == OpAt(pc)
           call == [op |-> name,
                    ts |-> CASE name = "write_data" -> now
                             [] name = "read_batch" -> timestamps[1]
                             [] OTHER -> None]
       IN  /\ pending' = Append(pending, call)
           /\ timestamp' = IF name = "write_data" THEN now ELSE timestamp
           /\ blob' = IF name = "write_data" THEN 1 ELSE blob
           /\ IF awaits(name)
              THEN awaited' = <<call>> /\ UNCHANGED <<pc, i>>
              ELSE /\ awaited' = <<>>
                   /\ pc' = AfterReturn(pc)
                   /\ i' = IF name \in {"read_last", "read_batch"} THEN i + 1 ELSE i
    /\ UNCHANGED <<warmups, batch_size, batch_reads, blob_size, verbose, result, now,
                   time_write, write_times, read_times, timestamps, batch_read_times,
                   inflight, reported, ops>>
    /\ UNCHANGED <<fileVars, adapterVars, mainVars>>

\* timestamps[0] of an empty list, before any call is made
BatchIndexError ==
    /\ awaited = <<>>
    /\ pc = "batch" /\ ~range_done(i, batch_reads) /\ timestamps = <<>>
    /\ Raise("IndexError")
    /\ UNCHANGED <<warmups, batch_size, batch_reads, blob_size, verbose, i, blob, result,
                   now, timestamp, time_write, write_times, read_times, timestamps,
                   batch_read_times, reported, ops>>
    /\ UNCHANGED <<fileVars, adapterVars, mainVars, awaitVars>>

\* what the runner does with a call that returned after d: the statements up to
\* the next call
Resumed(call, d) ==
    CASE call.op = "write_data" ->
           /\ pc' = AfterReturn(pc)
           /\ time_write' = IF pc = "loop" THEN d ELSE time_write
           /\ UNCHANGED <<i, result, write_times, read_times, timestamps,
                          batch_read_times, inflight, reported>>
      [] call.op = "read_last" ->
           \E res \in 0..MaxBlob :
              /\ result' = res
              /\ IF BlobMatches(res, blob)
                 THEN /\ pc' = AfterReturn(pc)
                      /\ i' = i + 1
                      /\ IF pc = "loop_read"
                         THEN /\ write_times' = Append(write_times, time_write)
                              /\ read_times' = Append(read_times, d)
                              /\ timestamps' = Append(timestamps, timestamp)
                         ELSE UNCHANGED <<write_times, read_times, timestamps>>
                      /\ UNCHANGED inflight
                 ELSE /\ Raise("AssertionError")
                      /\ UNCHANGED <<i, write_times, read_times, timestamps>>
              /\ UNCHANGED <<time_write, batch_read_times, reported>>
      [] call.op = "read_batch" ->
           \E count \in 0..(MaxBatch + 1) :
              /\ result' = count
              /\ IF CountValid(count, batch_size)
                 THEN /\ batch_read_times' = Append(batch_read_times, d)
                      /\ i' = i + 1
                      /\ UNCHANGED <<pc, inflight>>
                 ELSE /\ Raise("AssertionError")
                      /\ UNCHANGED <<batch_read_times, i>>
              /\ UNCHANGED <<time_write, write_times, read_times, timestamps, reported>>
      [] OTHER ->
           /\ pc' = "done"
           /\ reported' = inflight
           /\ UNCHANGED <<i, result, time_write, write_times, read_times, timestamps,
                          batch_read_times, inflight>>

\* what the runner does with a call that raised
Thrown(call) ==
    /\ IF call.op = "cleanup"
       THEN pc' = "done" /\ reported' = "CleanupError" /\ UNCHANGED inflight
       ELSE /\ Raise(IF call.op = "write_data" THEN "WriteError" ELSE "ReadError")
            /\ UNCHANGED reported
    /\ UNCHANGED <<i, result, time_write, write_times, read_times, timestamps,
                   batch_read_times>>

\* a pending call returns or raises; the runner suspended on it goes on
Complete ==
    /\ \E n \in 1..Len(pending), ok \in BOOLEAN, d \in Durations :
          LET call == pending[n]
          IN  /\ pending' = Dropped(pending, n)
              /\ ops' = Append(ops, Op(call.op, call.ts, ok))
              /\ IF awaited = <<call>>
                 THEN /\ awaited' = <<>>
                      /\ IF ok
                         THEN Resumed(call, d) /\ Elapsed(d)
                         ELSE Thrown(call) /\ UNCHANGED now
                 ELSE UNCHANGED <<awaited, pc, i, result, now, time_write, write_times,
                                  read_times, timestamps, batch_read_times, inflight,
                                  reported>>
    /\ UNCHANGED <<warmups, batch_size, batch_reads, blob_size, verbose, blob, timestamp>>
    /\ UNCHANGED <<fileVars, adapterVars, mainVars>>

\* the loop heads, the averages and the save are those of Next; no call is
\* pending when the runner is there
NextAwaits ==
    \/ Issue
    \/ Complete
    \/ BatchIndexError
    \/ WarmupDone
    \/ LoopDone
    \/ BatchDone
    \/ Aggregate
    \/ SaveResults

SpecAwaits == Init /\ [][NextAwaits]_vars

\* ---------------------------------------------------------------------
\* The orchestrator (benchmark.py, main)
\* ---------------------------------------------------------------------
\* 2**30, the margin the disk space check keeps free
Margin == 1073741824

\* --blob_sizes: the sizes main is given
MainBlobSizes == {1, 1024}

RECURSIVE MaxOf(_)
\* max(blob_sizes) of a sequence that is not empty
MaxOf(sizes) == IF Len(sizes) = 1 THEN sizes[1]
                ELSE Max(Head(sizes), MaxOf(Tail(sizes)))

\* total_disk_space = max(blob_sizes) * (batch_size + warmups)
total_disk_space(sizes, batch, warm) == MaxOf(sizes) * (batch + warm)

\* if total_disk_space_available - total_disk_space < 2**30
InsufficientAtMargin(available, required) == available - required <= Margin
Insufficient(available, required) == available - required < Margin

\* systems = [system_one, system_two]
Configured == <<"SystemOne", "SystemTwo">>

\* the positional parameters create() declares besides cls, and the positional
\* arguments main calls it with: SystemOne.create(blob_size), SystemTwo.create()
create_params(k) == 0
create_args(k) == IF k = "SystemOne" THEN 1 ELSE 0

\* the call binds when it passes no more arguments than there are parameters,
\* else it raises TypeError before the body of create() runs
CreateBinds(k) == create_args(k) <= create_params(k)

\* the configured adapters whose create() call raises TypeError
Unbound == {n \in 1..Len(Configured) : ~CreateBinds(Configured[n])}

InitMain ==
    /\ pc = "main"
    /\ blob_sizes \in UNION {[1..n -> MainBlobSizes] : n \in 0..MaxSizes}
    /\ batch_size \in 0..MaxBatch
    /\ batch_reads \in 0..MaxReads
    /\ warmups \in 0..MaxWarmups
    /\ verbose \in BOOLEAN
    /\ total_disk_space_available \in
          {0, Margin - 1, Margin} \cup
          (IF blob_sizes = <<>> THEN {}
           ELSE {Margin + total_disk_space(blob_sizes, batch_size, warmups) + e :
                    e \in {-1, 0, 1}})
    /\ size_index = 0
    /\ systems = <<>>
    /\ blob_size = 0
    /\ i = 0 /\ blob = None /\ result = None /\ now = 1
    /\ timestamp = None /\ time_write = None
    /\ write_times = <<>> /\ read_times = <<>> /\ timestamps = <<>>
    /\ batch_read_times = <<>>
    /\ inflight = "none" /\ reported = "none"
    /\ ops = <<>>
    /\ directory_exists = FALSE
    /\ files = [f \in FileNames |-> NoFile]
    /\ files0 = files
    /\ calls = <<>>
    /\ NoAdapter
    /\ NoAwait

\* main up to the for loop: the required space, the free space, the check
MainCheck ==
    /\ pc = "main"
    /\ IF blob_sizes = <<>>
       THEN \* max() of an empty sequence
            pc' = "main_done" /\ reported' = "ValueError"
       ELSE IF Insufficient(total_disk_space_available,
                            total_disk_space(blob_sizes, batch_size, warmups))
       THEN \* print("Not enough disk space available."); return
            pc' = "main_done" /\ UNCHANGED reported
       ELSE pc' = "main_loop" /\ UNCHANGED reported
    /\ UNCHANGED <<warmups, batch_size, batch_reads, blob_size, verbose, i, blob, result,
                   now, timestamp, time_write, write_times, read_times, timestamps,
                   batch_read_times, inflight, ops>>
    /\ UNCHANGED <<fileVars, adapterVars, mainVars, awaitVars>>

\* for blob_size in blob_sizes: create the adapters, then hand the first one to
\* benchmark_system; a create() call that does not bind ends main with TypeError
MainLoop ==
    /\ pc = "main_loop"
    /\ IF size_index >= Len(blob_sizes)
       THEN /\ pc' = "main_done"
            /\ UNCHANGED <<reported, blob_size, size_index, systems>>
       ELSE IF Unbound # {}
       THEN /\ systems' = SubSeq(Configured, 1,
                                 (CHOOSE n \in Unbound : \A m \in Unbound : n <= m) - 1)
            /\ size_index' = size_index + 1
            /\ pc' = "main_done"
            /\ reported' = "TypeError"
            /\ UNCHANGED blob_size
       ELSE /\ systems' = Configured
            /\ size_index' = size_index + 1
            /\ blob_size' = blob_sizes[size_index + 1]
            /\ pc' = "warmup"
            /\ UNCHANGED reported
    /\ UNCHANGED <<warmups, batch_size, batch_reads, verbose, i, blob, result,
                   now, timestamp, time_write, write_times, read_times, timestamps,
                   batch_read_times, inflight, ops>>
    /\ UNCHANGED <<fileVars, adapterVars, blob_sizes, total_disk_space_available, awaitVars>>

NextMain ==
    \/ MainCheck
    \/ MainLoop

SpecMain == InitMain /\ [][NextMain]_vars

\* ---------------------------------------------------------------------
\* The result recorder called on its own, on paths that do not exist yet
\* ---------------------------------------------------------------------
InitRecorder ==
    /\ pc = "idle"
    /\ warmups = 0 /\ batch_size = 0 /\ batch_reads = 0
    /\ blob_size = 0
    /\ verbose = FALSE
    /\ i = 0 /\ blob = None /\ result = None /\ now = 1
    /\ timestamp = None /\ time_write = None
    /\ write_times = <<>> /\ read_times = <<>> /\ timestamps = <<>>
    /\ batch_read_times = <<>>
    /\ inflight = "none" /\ reported = "none"
    /\ ops = <<>>
    /\ directory_exists \in BOOLEAN
    /\ files = [f \in FileNames |-> NoFile]
    /\ files0 = files
    /\ calls = <<>>
    /\ NoAdapter
    /\ NoMain
    /\ NoAwait

\* the number of data rows a path holds
RowsHeld(fs, f) == IF path_exists(fs, f) THEN Len(fs[f]) - 1 ELSE 0

\* save_results(filename, directory, blob_size, batch_size, write_times, read_times)
SaveResultsCall ==
    /\ pc = "idle"
    /\ Len(calls) < MaxCalls
    /\ \E f \in FileNames, bsize \in BlobSizes, batch \in {1, MaxBatch},
          wts \in TimeSeqs, rts \in TimeSeqs :
            /\ RowsHeld(files, "read_write") + RowsHeld(files, "batch_read")
                 + Max(Len(wts), Len(rts)) <= MaxRows
            /\ Recorded(<<Call(f, bsize, batch, wts, rts)>>)
    /\ UNCHANGED <<runnerVars, files0, adapterVars, mainVars, awaitVars>>

NextRecorder == SaveResultsCall

SpecRecorder == InitRecorder /\ [][NextRecorder]_vars

\* ---------------------------------------------------------------------
\* Properties of the runner
\* ---------------------------------------------------------------------
OpsNamed(name) == {k \in 1..Len(ops) : ops[k].op = name}
LastOp == ops[Len(ops)]
CleanupOps == {Op("cleanup", None, TRUE), Op("cleanup", None, FALSE)}

\* C1: every run of benchmark_system ends, and when it has ended cleanup() was
\* called exactly once and is the last adapter operation of the run, whatever
\* was raised in warmup, the loops or result saving; before the end of the run
\* cleanup() was not called.
C1_CleanupExactlyOnceLast ==
    /\ pc = "done" => /\ Cardinality(OpsNamed("cleanup")) = 1
                      /\ LastOp.op = "cleanup"
    /\ pc # "done" => /\ OpsNamed("cleanup") = {}
                      /\ ENABLED Next

C1_Witness_CleanupAfterFailure ==
    /\ pc = "done"
    /\ inflight \in {"WriteError", "ReadError", "AssertionError", "TypeError"}
    /\ Len(ops) > 1
    /\ LastOp.op = "cleanup"

DataRows(file) == IF file = NoFile THEN {} ELSE {k \in 1..Len(file) : file[k] # Header}
Gained(f) == Cardinality(DataRows(files[f])) - Cardinality(DataRows(files0[f]))
NewRows(f) == {k \in DataRows(files[f]) : files0[f] = NoFile \/ k > Len(files0[f])}

\* every write, read and validation of the run succeeded
AllValidated ==
    /\ \A k \in 1..Len(ops) : ops[k].op # "cleanup" => ops[k].ok
    /\ Cardinality(OpsNamed("write_data")) = warmups + batch_size
    /\ Cardinality(OpsNamed("read_last")) = warmups + batch_size
    /\ Cardinality(OpsNamed("read_batch")) = batch_reads
    /\ inflight # "AssertionError"

\* C2: after a run (of at least one item and one batch read) in which every
\* write, read and validation succeeded, the read_write file has gained exactly
\* batch_size rows recorded with batch size 1 and the batch_read file exactly
\* batch_reads rows recorded with batch_size.
C2_RowCount ==
    (pc = "done" /\ AllValidated /\ batch_size >= 1 /\ batch_reads >= 1) =>
        /\ Gained("read_write") = batch_size
        /\ Gained("batch_read") = batch_reads
        /\ \A k \in NewRows("read_write") : files["read_write"][k][4] = Format(1)
        /\ \A k \in NewRows("batch_read") : files["batch_read"][k][4] = Format(batch_size)

\* the last adapter call is a read_last that returned bytes different from the
\* blob just written
MismatchNow ==
    /\ ops # <<>>
    /\ LastOp.op = "read_last"
    /\ LastOp.ok
    /\ result # blob

\* C6: when read_last returns bytes different from the blob just written (in
\* warmup or in the single-item loop), an AssertionError is raised at once: the
\* next step of the run is the cleanup of the finally clause, no sample is
\* recorded for the iteration, and nothing follows cleanup.
C6_MismatchIsFatal ==
    /\ [](MismatchNow => inflight = "AssertionError" /\ pc = "cleanup")
    /\ [][MismatchNow => /\ ops' \in {Append(ops, c) : c \in CleanupOps}
                         /\ pc' = "done"
                         /\ UNCHANGED <<write_times, read_times, timestamps>>]_vars
    /\ [][pc = "done" => UNCHANGED ops]_vars

C6_Witness_MismatchThenCleanup ==
    /\ pc = "done"
    /\ Len(ops) >= 5
    /\ ops[Len(ops) - 1] = Op("read_last", None, TRUE)
    /\ result # blob
    /\ inflight = "AssertionError"
    /\ Len(write_times) = 1

\* the last adapter call is a read_batch that returned a number of items
\* different from batch_size
WrongCountNow ==
    /\ ops # <<>>
    /\ LastOp.op = "read_batch"
    /\ LastOp.ok
    /\ result # batch_size

\* C7: when read_batch returns a number of items different from batch_size the
\* runner raises an AssertionError, which is not what a failing read_batch call
\* raises; the trial is not recorded, only cleanup follows, no file is touched,
\* and unless cleanup fails too the AssertionError is what the caller gets.
C7_WrongCountIsValidationFailure ==
    /\ [](WrongCountNow =>
            /\ inflight = "AssertionError"
            /\ pc = "cleanup"
            /\ Len(batch_read_times) = Cardinality(OpsNamed("read_batch")) - 1
            /\ files = files0)
    /\ []((ops # <<>> /\ LastOp.op = "read_batch" /\ ~LastOp.ok) => inflight = "ReadError")
    /\ [][WrongCountNow =>
            /\ ops' \in {Append(ops, c) : c \in CleanupOps}
            /\ pc' = "done"
            /\ LastOp'.ok => reported' = "AssertionError"
            /\ UNCHANGED <<batch_read_times, files>>]_vars

C7_Witness_FourOfFive ==
    /\ pc = "done"
    /\ reported = "AssertionError"
    /\ batch_size = MaxBatch
    /\ Len(batch_read_times) = 1
    /\ ops[Len(ops) - 1].op = "read_batch"
    /\ result = batch_size - 1

\* C8: when the run failed and cleanup failed too, the caller gets the failure
\* of the run, not the one of cleanup.
C8_OriginalFailureReported ==
    (pc = "done" /\ inflight # "none") => reported = inflight


\* ---------------------------------------------------------------------
\* Properties of the recorder
\* ---------------------------------------------------------------------
CallsOn(f) == {k \in 1..Len(calls) : calls[k].filename = f}
HeaderLines(f) == {k \in 1..Len(files[f]) : files[f][k] = Header}

\* C3: a path exists exactly when save_results was called on it, its first line
\* is then the header and no other line of it is the header, however many calls
\* have appended to it.
C3_HeaderOnce ==
    \A f \in FileNames :
        /\ path_exists(files, f) <=> CallsOn(f) # {}
        /\ path_exists(files, f) =>
            /\ files[f][1] = Header
            /\ HeaderLines(f) = {1}

C3_Witness_SecondCallSamePath ==
    \E f \in FileNames :
        /\ Cardinality(CallsOn(f)) = 2
        /\ Len(files[f]) >= 3

IsPrefix(a, b) == Len(a) <= Len(b) /\ \A k \in 1..Len(a) : a[k] = b[k]

ExpectedRows(c) == Rows(c.write_times, c.read_times, c.blob_size, c.batch_size)

RECURSIVE RowsOfCalls(_, _)
\* the rows of the first n calls that were made on path f, in call order
RowsOfCalls(f, n) ==
    IF n = 0 THEN <<>>
    ELSE RowsOfCalls(f, n - 1) \o
         (IF calls[n].filename = f THEN ExpectedRows(calls[n]) ELSE <<>>)

\* C4: a call never changes what a file already holds (the old content is a
\* prefix of the new one), and a file holds one header followed by the rows of
\* the calls made on it, in call order.
C4_PureAppend ==
    /\ [][\A f \in FileNames :
            path_exists(files, f) => IsPrefix(files[f], files'[f])]_vars
    /\ [](\A f \in FileNames :
            path_exists(files, f) =>
                files[f] = <<Header>> \o RowsOfCalls(f, Len(calls)))

C4_Witness_TwoCallsConcatenated ==
    /\ Len(calls) = 2
    /\ calls[1].filename = calls[2].filename
    /\ calls[1].read_times # <<>> /\ calls[2].read_times # <<>>
    /\ calls[1].read_times # calls[2].read_times
    /\ Len(files[calls[1].filename]) = 1 + Len(calls[1].read_times) + Len(calls[2].read_times)

LastCall == calls[Len(calls)]
LastRowCount == Max(Len(LastCall.write_times), Len(LastCall.read_times))
\* the k-th line written by the last call
LastRow(k) == LET file == files[LastCall.filename]
              IN  file[Len(file) - LastRowCount + k]
FieldOK(field, seq, k) ==
    IF k > Len(seq) THEN field = "N/A"
    ELSE seq[k] # 0 => field = Format(seq[k])

RECURSIVE RowCount(_, _)
RowCount(f, n) ==
    IF n = 0 THEN 0
    ELSE RowCount(f, n - 1) +
         (IF calls[n].filename = f
          THEN Max(Len(calls[n].write_times), Len(calls[n].read_times)) ELSE 0)

\* C5: a call writes max(len(write_times), len(read_times)) rows; row k has four
\* fields, pairs write_times[k] with read_times[k], and where a sequence has no
\* k-th element the field is N/A.
C5_RowsPairedAndPadded ==
    /\ \A f \in FileNames :
          path_exists(files, f) => Len(files[f]) = 1 + RowCount(f, Len(calls))
    /\ calls # <<>> =>
          \A k \in 1..LastRowCount :
              /\ Len(LastRow(k)) = 4
              /\ FieldOK(LastRow(k)[1], LastCall.write_times, k)
              /\ FieldOK(LastRow(k)[2], LastCall.read_times, k)
              /\ LastRow(k)[3] = Format(LastCall.blob_size)
              /\ LastRow(k)[4] = Format(LastCall.batch_size)

C5_Witness_ReadTimesOnly ==
    /\ calls # <<>>
    /\ LastCall.write_times = <<>>
    /\ Len(LastCall.read_times) = 2
    /\ LastRow(2)[1] = "N/A"
    /\ LastRow(2)[2] # "N/A"

\* the field a sample sequence should give row k: the number when the sequence
\* has a k-th element, N/A when it has none
FieldOf(seq, k) == IF k <= Len(seq) THEN Format(seq[k]) ELSE "N/A"

\* C21: in the rows of the last call, every sample present in write_times and
\* read_times is written as its number, a duration of 0 included, and a field
\* is N/A only where the sequence has no element at that row.
C21_SamplesWrittenAsNumbers ==
    calls # <<>> =>
        \A k \in 1..LastRowCount :
            /\ LastRow(k)[1] = FieldOf(LastCall.write_times, k)
            /\ LastRow(k)[2] = FieldOf(LastCall.read_times, k)

\* ---------------------------------------------------------------------
\* Properties of the adapters
\* ---------------------------------------------------------------------
Remains == {c \in Containers : store[c].exists \/ store[c].items # {}}

\* C9: after cleanup() has returned, with no deletion having failed on the way,
\* no container and no stored item of the adapter remains in the backend.
C9_NothingRemainsAfterCleanup ==
    (outcome = "returned" /\ failed = {}) => Remains = {}

Unattempted == {n \in {listing[k] : k \in 1..Len(listing)} : <<"remove_object", n>> \notin attempted}

\* C10: in the adapters of the object store plus index, when cleanup() has ended
\* and a deletion failed on the way, cleanup() still returned and every listed
\* object, the object bucket and the index bucket were attempted.
C10_CleanupBestEffort ==
    (kind \in TwoTier /\ apc = "closed" /\ failed # {}) =>
        /\ outcome = "returned"
        /\ Unattempted = {}
        /\ <<"remove_bucket", 0>> \in attempted
        /\ <<"delete_bucket", 0>> \in attempted

\* the last two calls are a write_data that succeeded and a read_last
ReadAfterWrite ==
    /\ Len(ops) >= 2
    /\ LastOp.op = "read_last"
    /\ ops[Len(ops) - 1].op = "write_data"
    /\ ops[Len(ops) - 1].ok

\* C11: for every adapter, a read_last() issued right after a write_data(blob,
\* timestamp) that succeeded returns blob, whatever was written before with
\* other timestamps.
C11_ReadLastReturnsWritten ==
    ReadAfterWrite => (LastOp.ok /\ result = blob)

\* the calls so far: N writes that succeeded, their timestamps strictly
\* increasing, and then read_batch of the first timestamp
BatchAfterWrites ==
    /\ Len(ops) >= 2
    /\ LastOp.op = "read_batch"
    /\ \A n \in 1..(Len(ops) - 1) : ops[n].op = "write_data" /\ ops[n].ok
    /\ \A n \in 1..(Len(ops) - 2) : ops[n].ts < ops[n + 1].ts
    /\ LastOp.ts = ops[1].ts

\* C12: for every adapter, after N blobs were written with timestamps
\* t_1 < ... < t_N, read_batch(t_1) returns exactly N blobs.
C12_ReadBatchReturnsAll ==
    BatchAfterWrites => (LastOp.ok /\ result = Len(ops) - 1)

\* ---------------------------------------------------------------------
\* Properties of the orchestrator
\* ---------------------------------------------------------------------
\* the free space minus the space the run needs is below the margin of 1 GiB
BelowMargin ==
    total_disk_space_available - MaxOf(blob_sizes) * (batch_size + warmups) < Margin

\* main returned at the disk space check: nothing was created, called or written
Aborted ==
    /\ pc = "main_done"
    /\ reported = "none"
    /\ size_index = 0
    /\ systems = <<>>
    /\ ops = <<>>
    /\ store = FreshStore
    /\ files = files0

\* C14: once main is past its disk space check, it has aborted with no adapter
\* created, no storage operation and no file touched exactly when the free space
\* minus max(blob_sizes) * (batch_size + warmups) is below the margin of 1 GiB;
\* when the margin is met main went on into the loop over the blob sizes.
C14_AbortsBelowMargin ==
    (pc # "main" /\ blob_sizes # <<>>) =>
        IF BelowMargin THEN Aborted
        ELSE pc = "main_loop" \/ size_index > 0

C14_Witness_OneByteShort ==
    /\ Aborted
    /\ batch_size + warmups > 0
    /\ total_disk_space_available =
         Margin + MaxOf(blob_sizes) * (batch_size + warmups) - 1

\* C17: when the disk space check has passed and main has ended, it has gone
\* through every blob size, in order, and ended without an exception.
C17_EveryBlobSizeProcessed ==
    (pc = "main_done" /\ blob_sizes # <<>> /\ ~BelowMargin) =>
        /\ size_index = Len(blob_sizes)
        /\ reported = "none"

\* ---------------------------------------------------------------------
\* Properties of create()
\* ---------------------------------------------------------------------
\* the containers an adapter cannot work without
Required(k) ==
    CASE k = "SystemOne" -> {"reduct"}
      [] k \in TwoTier -> {"minio", "influx"}
      [] k = "TimescaleDBSystem" -> {"database", "table"}
      [] k \in GridFSKinds -> {"data"}

\* C15: create() does not raise, whichever of its containers it finds in the
\* backend; once it has returned every container the adapter requires exists,
\* the ones that were missing included; and a blob written to the adapter right
\* after create() is what read_last() returns.
C15_CreateIdempotent ==
    /\ apc # "failed"
    /\ apc = "ready" => \A c \in Required(kind) : store[c].exists
    /\ (Len(ops) = 2 /\ ReadAfterWrite) => (LastOp.ok /\ result = blob)

C15_Witness_OneContainerFound ==
    /\ kind = "SystemTwo"
    /\ store0["minio"].exists
    /\ ~store0["influx"].exists
    /\ store["influx"].exists
    /\ Len(ops) = 2
    /\ ReadAfterWrite
    /\ result = blob

\* ---------------------------------------------------------------------
\* Properties of the two-tier adapters
\* ---------------------------------------------------------------------
ObjectNames == {o[1] : o \in store["minio"].items}
IndexedNames == {e[2] : e \in store["influx"].items}
\* the objects no index entry points to
Orphans == ObjectNames \ IndexedNames

\* the timestamps of the write_data calls that raised and of those that returned
FailedWrites == {ops[n].ts : n \in {m \in 1..Len(ops) : ops[m].op = "write_data" /\ ~ops[m].ok}}
GoodWrites == {ops[n].ts : n \in {m \in 1..Len(ops) : ops[m].op = "write_data" /\ ops[m].ok}}

\* C19: in the two-tier adapters the object is stored before its index entry:
\* the index never points to an object that is not stored, an object without
\* index entry comes from a write_data that raised, and a write_data that
\* returned left both.  cleanup() lists the object bucket itself, so its listing
\* holds every object, orphans included, and when cleanup() has returned with no
\* deletion failed no object and no object bucket is left.
C19_OrphanObjectCleaned ==
    /\ [](kind \in TwoTier /\ apc = "ready" =>
            /\ IndexedNames \subseteq ObjectNames
            /\ Orphans \subseteq FailedWrites
            /\ GoodWrites \subseteq (ObjectNames \cap IndexedNames))
    /\ [][(apc = "list" /\ apc' # "list") =>
            {listing'[n] : n \in 1..Len(listing')} = ObjectNames]_vars
    /\ [](kind \in TwoTier /\ outcome = "returned" /\ failed = {} =>
            store["minio"] = Absent)

C19_Witness_OrphanRemoved ==
    /\ kind = "SystemTwo"
    /\ outcome = "returned"
    /\ failed = {}
    /\ \E ts \in FailedWrites \ GoodWrites : <<"remove_object", ts>> \in attempted
    /\ store["minio"] = Absent

\* ---------------------------------------------------------------------
\* Properties of the runner: phases and persistence
\* ---------------------------------------------------------------------
\* the phase a position of benchmark_system belongs to: warmup, single-item
\* loop, batch-read loop, aggregate and save, cleanup, returned
Phase(p) == CASE p \in {"warmup", "warmup_read"} -> 1
              [] p \in {"loop", "loop_read"} -> 2
              [] p = "batch" -> 3
              [] p \in {"aggregate", "save"} -> 4
              [] p = "cleanup" -> 5
              [] OTHER -> 6

\* the operations of that name that returned
Returns(name) == {n \in OpsNamed(name) : ops[n].ok}

\* the phase being left has run all its iterations, each of them to its end
PhaseComplete ==
    CASE Phase(pc) = 1 -> /\ i = warmups
                          /\ Cardinality(Returns("write_data")) = warmups
                          /\ Cardinality(Returns("read_last")) = warmups
      [] Phase(pc) = 2 -> /\ i = batch_size
                          /\ Len(timestamps) = batch_size
                          /\ Cardinality(Returns("write_data")) = warmups + batch_size
                          /\ Cardinality(Returns("read_last")) = warmups + batch_size
      [] Phase(pc) = 3 -> /\ i = batch_reads
                          /\ Len(batch_read_times) = batch_reads
                          /\ Cardinality(Returns("read_batch")) = batch_reads
      [] OTHER -> TRUE

\* C16: a run never goes back to an earlier phase and never skips one, except
\* that a failure takes it from any phase straight to cleanup; it leaves the
\* warmup, the single-item loop and the batch-read loop for the next phase only
\* after warmups, batch_size and batch_reads complete iterations; and once an
\* exception is in flight the run is in cleanup or has returned.
C16_PhasesInOrder ==
    /\ [][\/ Phase(pc') = Phase(pc)
          \/ Phase(pc') = Phase(pc) + 1 /\ inflight' = inflight
          \/ pc' = "cleanup" /\ inflight' # "none"]_vars
    /\ [][(Phase(pc') # Phase(pc) /\ pc' # "cleanup" /\ pc' # "done") =>
              (PhaseComplete /\ inflight = "none")]_vars
    /\ [][inflight' # inflight => (inflight = "none" /\ pc' = "cleanup")]_vars
    /\ [](inflight # "none" => pc \in {"cleanup", "done"})

\* a run that went through every phase, each loop at least once, and whose
\* save failed
C16_Witness_AllPhasesThenCleanup ==
    /\ pc = "done"
    /\ warmups >= 1 /\ batch_size >= 1 /\ batch_reads >= 1
    /\ Cardinality(Returns("read_last")) = warmups + batch_size
    /\ Len(batch_read_times) = batch_reads
    /\ inflight = "TypeError"
    /\ LastOp.op = "cleanup"

\* the failures of the warmup, of the single-item loop and of the batch-read loop
FailedBeforeSave == inflight \in {"WriteError", "ReadError", "AssertionError", "IndexError"}

\* C20: a run that failed in the warmup, in the single-item loop or in the
\* batch-read loop never reaches the save: no save_results call was made and
\* both result files are as the run found them.  The save is reached only with
\* no exception in flight, after every write, read and validation of the run
\* succeeded, so the samples of a failed run are never handed to save_results.
C20_FailedRunAppendsNothing ==
    /\ FailedBeforeSave => /\ pc \in {"cleanup", "done"}
                           /\ calls = <<>>
                           /\ files = files0
                           /\ directory_exists = path_exists(files0, "read_write")
    /\ (pc = "save" \/ calls # <<>>) =>
           /\ AllValidated
           /\ Len(write_times) = batch_size
           /\ Len(batch_read_times) = batch_reads
           /\ ~FailedBeforeSave

\* samples were collected, then a batch read returned the wrong number of records
C20_Witness_SamplesDropped ==
    /\ pc = "done"
    /\ inflight = "AssertionError"
    /\ write_times # <<>>
    /\ Len(ops) > 1
    /\ ops[Len(ops) - 1].op = "read_batch"
    /\ files = files0
    /\ calls = <<>>

\* ---------------------------------------------------------------------
\* Properties of the runner's adapter calls
\* ---------------------------------------------------------------------
\* C18: at most one adapter call is pending at any time, and it is the one the
\* runner is suspended on.  While a read_last is pending, the last call that
\* completed is the write_data of the current timestamp, and it returned.  In
\* the order of completion every read_last comes right after a write_data that
\* returned, and a call that raised is followed by nothing but cleanup.
C18_OneOperationInFlight ==
    /\ Len(pending) <= 1
    /\ awaited = pending
    /\ \A n \in 1..Len(pending) :
          /\ pending[n].op = "read_last" =>
                (ops # <<>> /\ LastOp = Op("write_data", timestamp, TRUE))
          /\ (ops # <<>> /\ ~LastOp.ok) => pending[n].op = "cleanup"
    /\ \A k \in OpsNamed("read_last") :
          k > 1 /\ ops[k - 1].op = "write_data" /\ ops[k - 1].ok
    /\ \A k \in 1..(Len(ops) - 1) : ~ops[k].ok => ops[k + 1].op = "cleanup"

\* a read_last is pending in the second iteration of the single-item loop
C18_Witness_ReadPendingAfterWrite ==
    /\ pc = "loop_read"
    /\ i = 1
    /\ Len(pending) = 1
    /\ pending[1].op = "read_last"
    /\ LastOp = Op("write_data", timestamp, TRUE)

\* ---------------------------------------------------------------------
\* Termination of cleanup()
\* ---------------------------------------------------------------------
\* C22: once InfluxDBMinioSystem.cleanup() has been entered, its loop over the
\* object bucket is eventually left, the removal of the bucket is attempted and
\* cleanup() ends, whether removals of objects fail or not.
C22_CleanupTerminates ==
    (kind = "InfluxDBMinioSystem" /\ apc = "list") ~>
        (apc = "closed" /\ <<"remove_bucket", 0>> \in attempted)
====
